---- MODULE Spec2Model ----
(***************************************************************************)
(* Model of the MultiRenderer composition engine                           *)
(* (src/src/multi-items/multi-renderer.jsx).                               *)
(*                                                                         *)
(* The engine caches a tree of renderer cells built from props.item and    *)
(* props.shape, rebuilds it when the item reference changes, and maps the  *)
(* cached tree on demand (renderers, scores, serialized state, widget      *)
(* discovery, state restoration).                                          *)
(*                                                                         *)
(* JavaScript values are tagged records here so that every value a field   *)
(* can hold is comparable: null is Null, undefined is Undefined, an array  *)
(* is [type |-> "array", c |-> <<children>>], a keyed object is            *)
(* [type |-> "object", c |-> <<children in key order>>].                   *)
(***************************************************************************)
EXTENDS Integers, Sequences, FiniteSets, TLC

\* ---------------------------------------------------------------- bounds
\* Cells are allocated fresh by every successful build; a rebuild is only
\* taken while the allocation counter is at most MaxCell.
MaxCell == 5
\* At most MaxCalls restoreSerializedState calls are made in one behaviour.
MaxCalls == 1
\* The restoration protocol on its own is explored with up to MaxInterleaved
\* calls whose leaf completions interleave.
MaxInterleaved == 2

\* ------------------------------------------------------------ JS values
Null == [type |-> "null"]
Undefined == [type |-> "undefined"]

ContentNode(n) == [type |-> "content", v |-> n]
HintNode(n) == [type |-> "hint", v |-> n]
TagsNode == [type |-> "tags", v |-> 0]
Arr(s) == [type |-> "array", c |-> s]
Obj(s) == [type |-> "object", c |-> s]
StateVal(n) == [type |-> "state", v |-> n]

\* ---------------------------------------------------------------- shapes
ContentShape == [type |-> "content"]
HintShape == [type |-> "hint"]
TagsShape == [type |-> "tags"]
ArrayOf(s) == [type |-> "array", elementShape |-> s]
ShapeOf(s) == [type |-> "object", shape |-> s]

LeafTypes == {"content", "hint", "tags"}

\* The shape of the header example: a keyed object holding an array of
\* content nodes, an array of hints and a tags node.
ShapeX == ShapeOf(<<ArrayOf(ContentShape), ArrayOf(HintShape), TagsShape>>)
Shapes == {ShapeX, TagsShape}

\* ----------------------------------------------------------------- items
\* Items are references; two references may hold deeply equal values.
ItemRefs == {1, 2, 3, 4}

ItemX ==
    Obj(<<Arr(<<ContentNode(1), ContentNode(2)>>),
          Arr(<<HintNode(1), HintNode(2)>>),
          TagsNode>>)

\* An item that holds an array where ShapeX expects a content leaf.
ItemBad ==
    Obj(<<Arr(<<ContentNode(1), Arr(<<ContentNode(2)>>)>>),
          Arr(<<HintNode(1)>>),
          TagsNode>>)

\* itemToTree: the tree of nodes an item reference holds (item._multi).
\* References 1 and 2 hold deeply equal values.
itemToTree(r) ==
    CASE r \in {1, 2} -> ItemX
      [] r = 3 -> TagsNode
      [] OTHER -> ItemBad

\* -------------------------------------------------------------- mapTree
ChildShape(shape, i) ==
    IF shape.type = "array" THEN shape.elementShape ELSE shape.shape[i]

\* A leaf position of the shape accepts a leaf of the matching kind; a tags
\* position also accepts the null a tags leaf was mapped to.
LeafMatches(tree, shape) ==
    IF shape.type = "tags"
    THEN tree.type \in {"tags", "null"}
    ELSE tree.type = shape.type

NodeMatches(tree, shape) ==
    /\ tree.type = shape.type
    /\ shape.type = "object" => Len(tree.c) = Len(shape.shape)

LeafVisit(tree, shape, path) ==
    [k |-> "leaf", type |-> shape.type, node |-> tree, path |-> path]

ErrorVisit(path) ==
    [k |-> "error", type |-> "error", node |-> Null, path |-> path]

HasError(w) == w # <<>> /\ w[Len(w)].k = "error"

\* The leaves mapTree visits, in pre-order, walking tree and shape in
\* lock-step; the walk stops at the first position where they disagree.
RECURSIVE Walk(_, _, _), WalkChildren(_, _, _, _)
Walk(tree, shape, path) ==
    IF shape.type \in LeafTypes
    THEN IF LeafMatches(tree, shape)
         THEN <<LeafVisit(tree, shape, path)>>
         ELSE <<ErrorVisit(path)>>
    ELSE IF NodeMatches(tree, shape)
         THEN WalkChildren(tree.c, shape, path, 1)
         ELSE <<ErrorVisit(path)>>

WalkChildren(c, shape, path, i) ==
    IF i > Len(c)
    THEN <<>>
    ELSE LET w == Walk(c[i], ChildShape(shape, i), Append(path, i))
         IN  IF HasError(w)
             THEN w
             ELSE w \o WalkChildren(c, shape, path, i + 1)

RECURSIVE LeafCount(_, _), LeafCountUpTo(_, _, _)
LeafCount(tree, shape) ==
    IF shape.type \in LeafTypes
    THEN 1
    ELSE LeafCountUpTo(tree.c, shape, Len(tree.c))

LeafCountUpTo(c, shape, n) ==
    IF n = 0
    THEN 0
    ELSE LeafCountUpTo(c, shape, n - 1) + LeafCount(c[n], ChildShape(shape, n))

\* firstN of an annotated renderer array: the hint payloads of the array's
\* cells, in order (HintsRenderer shows the first n of them).
HintsOf(rendererDatas) ==
    [i \in 1..Len(rendererDatas) |-> rendererDatas[i].hint]

\* _annotateRendererArray that tests the type of the array shape instead of
\* its element shape: firstN is never attached.
annotateRendererArrayNever(renderers, rendererDatas, shape) ==
    [type |-> "array", c |-> renderers]

\* _annotateRendererArray: a copy of the mapped children, with firstN
\* attached when the element shape is hint.
annotateRendererArray(renderers, rendererDatas, shape) ==
    IF shape.elementShape.type = "hint"
    THEN [type |-> "array", c |-> renderers, firstN |-> HintsOf(rendererDatas)]
    ELSE [type |-> "array", c |-> renderers]

\* The tree mapTree returns when the walk succeeds: the k-th leaf in
\* pre-order is replaced by vals[k], arrays and objects keep their length;
\* annotate says whether the array mapper of _getRenderers is configured.
RECURSIVE MapLeaves(_, _, _, _, _)
MapLeaves(tree, shape, vals, k, annotate) ==
    IF shape.type \in LeafTypes
    THEN vals[k]
    ELSE LET mapped ==
                 [i \in 1..Len(tree.c) |->
                     MapLeaves(tree.c[i], ChildShape(shape, i), vals,
                               k + LeafCountUpTo(tree.c, shape, i - 1),
                               annotate)]
         IN  IF shape.type = "array" /\ annotate
             THEN annotateRendererArray(mapped, tree.c, shape)
             ELSE [type |-> tree.type, c |-> mapped]

ShapeMismatch(path) == [type |-> "ShapeMismatch", path |-> path]
TypeError == [type |-> "TypeError", path |-> <<>>]

\* mapTree(tree, shape) with the leaf values given by Leaf(visit, index):
\* the mapped tree, or the error thrown at the first mismatch.
mapTree(tree, shape, vals, annotate) ==
    LET w == Walk(tree, shape, <<>>)
    IN  IF HasError(w)
        THEN [tree |-> Null, thrown |-> ShapeMismatch(w[Len(w)].path)]
        ELSE [tree |-> MapLeaves(tree, shape, vals, 1, annotate),
              thrown |-> Null]

\* ----------------------------------------------------------------- cells
\* _makeContentRendererData: a new cell; its renderer element is created
\* with the cell, is identified by the cell and carries the content.
makeContentRendererData(content, id) ==
    [type |-> "content", cell |-> id, renderer |-> id, content |-> content.v]

\* _makeHintRendererData: a new cell that keeps the hint.
makeHintRendererData(hint, id) ==
    [type |-> "hint", cell |-> id, renderer |-> id, hint |-> hint.v]

\* _makeRendererDataTree: cells are allocated in pre-order starting at base;
\* a tags leaf is mapped to null.
makeRendererDataTree(it, sh, base) ==
    LET itemTree == itemToTree(it)
        w == Walk(itemTree, sh, <<>>)
        vals == [i \in 1..Len(w) |->
                    CASE w[i].type = "content" ->
                             makeContentRendererData(w[i].node, base + i - 1)
                      [] w[i].type = "hint" ->
                             makeHintRendererData(w[i].node, base + i - 1)
                      [] OTHER -> Null]
    IN  mapTree(itemTree, sh, vals, FALSE)

\* _tryMakeRendererState with a catch block that forgets the error.
tryMakeRendererStateDropsError(it, sh, base) ==
    LET r == makeRendererDataTree(it, sh, base)
    IN  [rendererDataTree |-> r.tree, renderError |-> Null,
         propagated |-> Null]

\* _tryMakeRendererState without the try/catch: the error reaches the
\* caller and no State is returned.
tryMakeRendererStateNoCatch(it, sh, base) ==
    LET r == makeRendererDataTree(it, sh, base)
    IN  [rendererDataTree |-> r.tree, renderError |-> Null,
         propagated |-> r.thrown]

\* _tryMakeRendererState: the State built from the props, or the State that
\* holds the error thrown by the build; nothing is propagated.
tryMakeRendererState(it, sh, base) ==
    LET r == makeRendererDataTree(it, sh, base)
    IN  IF r.thrown = Null
        THEN [rendererDataTree |-> r.tree, renderError |-> Null,
              propagated |-> Null]
        ELSE [rendererDataTree |-> Null, renderError |-> r.thrown,
              propagated |-> Null]

\* The leaves of a tree, in pre-order.
RECURSIVE LeavesOf(_), LeavesFrom(_, _)
LeavesOf(tree) ==
    IF tree.type \in {"array", "object"}
    THEN LeavesFrom(tree.c, 1)
    ELSE <<tree>>

LeavesFrom(c, i) ==
    IF i > Len(c) THEN <<>> ELSE LeavesOf(c[i]) \o LeavesFrom(c, i + 1)

IsCell(leaf) == leaf.type \in {"content", "hint"}

IsContentCell(leaf) == leaf.type = "content"

\* The cells of a cached tree, in pre-order (its content and hint leaves).
CellsOf(tree) ==
    LET cells == SelectSeq(LeavesOf(tree), IsCell)
    IN  [i \in DOMAIN cells |-> cells[i].cell]

SeqRange(s) == {s[i] : i \in 1..Len(s)}

\* ----------------------------------------------------------------- state
VARIABLES
    item,              \* this.props.item (a reference)
    shape,             \* this.props.shape
    rendererDataTree,  \* this.state.rendererDataTree
    renderError,       \* this.state.renderError
    ref,               \* data.ref of every cell allocated so far (0 is null)
    nextCell,          \* the next cell to allocate
    calls,             \* the restoreSerializedState calls made so far
    last               \* the last operation, what it returned or threw

vars == <<item, shape, rendererDataTree, renderError, ref, nextCell, calls,
          last>>

\* The mounted Renderer instances a ref callback may be handed.
Instances == {1}

Allocated(tree) == Len(CellsOf(tree))

\* constructor: the state is computed from the initial props.
Init ==
    \E it \in ItemRefs, sh \in Shapes :
        LET s == tryMakeRendererState(it, sh, 1)
            n == Allocated(s.rendererDataTree)
        IN  /\ item = it
            /\ shape = sh
            /\ rendererDataTree = s.rendererDataTree
            /\ renderError = s.renderError
            /\ ref = [c \in 1..n |-> 0]
            /\ nextCell = n + 1
            /\ calls = <<>>
            /\ last = [op |-> "constructor", thrown |-> s.propagated]

\* this.setState(this._tryMakeRendererState(nextProps))
SetRendererState(nextItem, nextShape) ==
    LET s == tryMakeRendererState(nextItem, nextShape, nextCell)
        n == Allocated(s.rendererDataTree)
    IN  /\ nextCell <= MaxCell
        /\ rendererDataTree' = s.rendererDataTree
        /\ renderError' = s.renderError
        /\ ref' = [c \in 1..(nextCell + n - 1) |->
                      IF c < nextCell THEN ref[c] ELSE 0]
        /\ nextCell' = nextCell + n
        /\ last' = [op |-> "componentWillReceiveProps",
                    thrown |-> s.propagated, rebuilt |-> TRUE,
                    previous |-> item]

KeepRendererState ==
    /\ UNCHANGED <<rendererDataTree, renderError, ref, nextCell>>
    /\ last' = [op |-> "componentWillReceiveProps", thrown |-> Null,
                rebuilt |-> FALSE, previous |-> item]

\* componentWillReceiveProps that rebuilds on every props update.
componentWillReceivePropsAlways(nextItem, nextShape) ==
    /\ item' = nextItem
    /\ shape' = nextShape
    /\ SetRendererState(nextItem, nextShape)
    /\ UNCHANGED calls

\* componentWillReceiveProps that compares the items deeply.
componentWillReceivePropsDeepEqual(nextItem, nextShape) ==
    /\ item' = nextItem
    /\ shape' = nextShape
    /\ IF itemToTree(nextItem) # itemToTree(item)
       THEN SetRendererState(nextItem, nextShape)
       ELSE KeepRendererState
    /\ UNCHANGED calls

\* componentWillReceiveProps(nextProps): the state is rebuilt only when the
\* item is not the current item reference; the props are replaced.
componentWillReceiveProps(nextItem, nextShape) ==
    /\ item' = nextItem
    /\ shape' = nextShape
    /\ IF nextItem # item
       THEN SetRendererState(nextItem, nextShape)
       ELSE KeepRendererState
    /\ UNCHANGED calls

ReceiveProps ==
    \E nextItem \in ItemRefs, nextShape \in Shapes :
        componentWillReceiveProps(nextItem, nextShape)

\* The cells with a ref callback if _makeHintRendererData gave the
\* HintsRenderer a ref callback too.
ContentCellsOfAndHints(tree) ==
    LET cells == SelectSeq(LeavesOf(tree), IsCell)
    IN  [i \in DOMAIN cells |-> cells[i].cell]

\* The content cells of the cached tree: the cells whose renderer element
\* carries a ref callback.
ContentCellsOf(tree) ==
    LET cells == SelectSeq(LeavesOf(tree), IsContentCell)
    IN  [i \in DOMAIN cells |-> cells[i].cell]

\* A ref callback that closes over a variable shared by the cells of the
\* tree: the instance is written to every content cell.
MountShared(c, e) ==
    /\ c \in SeqRange(ContentCellsOf(rendererDataTree))
    /\ ref[c] = 0
    /\ ref' = [d \in DOMAIN ref |->
                  IF d \in SeqRange(ContentCellsOf(rendererDataTree))
                  THEN e ELSE ref[d]]
    /\ last' = [op |-> "ref", thrown |-> Null, cell |-> c]
    /\ UNCHANGED <<item, shape, rendererDataTree, renderError, nextCell, calls>>

\* ref={e => data.ref = e}: React hands the callback of a rendered content
\* element the mounted instance ...
Mount(c, e) ==
    /\ c \in SeqRange(ContentCellsOf(rendererDataTree))
    /\ ref[c] = 0
    /\ ref' = [ref EXCEPT ![c] = e]
    /\ last' = [op |-> "ref", thrown |-> Null, cell |-> c]
    /\ UNCHANGED <<item, shape, rendererDataTree, renderError, nextCell, calls>>

\* ... and null when the instance unmounts (also for cells of a replaced
\* tree, whose elements are no longer rendered).
Unmount(c) ==
    /\ c \in DOMAIN ref
    /\ ref[c] # 0
    /\ ref' = [ref EXCEPT ![c] = 0]
    /\ last' = [op |-> "ref", thrown |-> Null, cell |-> c]
    /\ UNCHANGED <<item, shape, rendererDataTree, renderError, nextCell, calls>>

\* ------------------------------------------------- the leaf capabilities
\* What a mounted Renderer instance answers (external to the engine).
\* The leaf of content 1 is answered correctly, the other leaves are not.
LeafScore(data) ==
    [earned |-> IF data.content = 1 THEN 1 ELSE 0, total |-> 1]
LeafUserInput(data) == [type |-> "guess", v |-> data.content]
LeafSerializedState(data) == StateVal(data.content)
LeafWidgets(data, criterion) ==
    [i \in 1..data.content |->
        [cell |-> data.cell, widget |-> i, criterion |-> criterion]]

Criteria == {1}

\* Util.keScoreFromPerseusScore(score, guess)
keScoreFromPerseusScore(score, guess) ==
    [type |-> "keScore", earned |-> score.earned, total |-> score.total,
     guess |-> guess]

\* Util.combineScores(a, b)
combineScores(a, b) ==
    [earned |-> a.earned + b.earned, total |-> a.total + b.total]

\* scores.reduce(Util.combineScores) on a non-empty array: a left fold
\* that starts from the first element.
RECURSIVE ReduceFrom(_, _, _)
ReduceFrom(acc, scores, i) ==
    IF i > Len(scores)
    THEN acc
    ELSE ReduceFrom(combineScores(acc, scores[i]), scores, i + 1)

\* ---------------------------------------------------------- _mapRenderers
\* The leaves _mapRenderers visits: none when the cached tree is null.
Visits ==
    IF rendererDataTree = Null
    THEN <<>>
    ELSE Walk(rendererDataTree, shape, <<>>)

\* The visits the leaf mapper is called on (a tags leaf goes through the
\* default tags mapper), without the error visit that ends a failed walk.
IsCellVisit(v) == v.k = "leaf" /\ v.type \in {"content", "hint"}

CellVisits == SelectSeq(Visits, IsCellVisit)

IsMountedVisit(v) == IsCellVisit(v) /\ ref[v.node.cell] # 0

MountedVisits == SelectSeq(Visits, IsMountedVisit)

\* _mapRenderers(leafMapper, arrayMapper), the leaf mapper given by the
\* values it returns at the visits.
mapRenderers(vals, annotate) ==
    IF rendererDataTree = Null
    THEN [tree |-> Null, thrown |-> Null]
    ELSE mapTree(rendererDataTree, shape, vals, annotate)

\* The values a traversal that disregards the output maps the leaves to.
NoVals == [i \in DOMAIN Visits |-> Undefined]

Returned(op, r) == [op |-> op, ret |-> r.tree, thrown |-> r.thrown]

Frame == UNCHANGED <<item, shape, rendererDataTree, renderError, ref,
                     nextCell, calls>>

\* _scoreFromRef(ref)
scoreFromRef(data) ==
    IF ref[data.cell] = 0
    THEN Null
    ELSE keScoreFromPerseusScore(LeafScore(data), LeafUserInput(data))

\* getScores()
getScores ==
    LET vs == Visits
        vals == [i \in DOMAIN vs |->
                    IF IsCellVisit(vs[i])
                    THEN scoreFromRef(vs[i].node)
                    ELSE Null]
    IN  /\ last' = Returned("getScores", mapRenderers(vals, FALSE))
        /\ Frame

\* score() that returns the score of the first mounted leaf instead of the
\* reduction of all of them.
scoreResultFirstOnly ==
    LET vs == Visits
        vals == [i \in DOMAIN vs |->
                    IF IsMountedVisit(vs[i])
                    THEN LeafUserInput(vs[i].node)
                    ELSE Null]
        guess == mapRenderers(vals, FALSE)
        mounted == MountedVisits
    IN  IF guess.thrown # Null
        THEN [op |-> "score", ret |-> Null, thrown |-> guess.thrown]
        ELSE IF mounted = <<>>
        THEN [op |-> "score", ret |-> Null, thrown |-> TypeError]
        ELSE [op |-> "score",
              ret |-> keScoreFromPerseusScore(LeafScore(mounted[1].node),
                                              guess.tree),
              thrown |-> Null]

\* score(): the scores of the mounted leaves are pushed in visiting order
\* and reduced without an initial value.
scoreResult ==
    LET vs == Visits
        vals == [i \in DOMAIN vs |->
                    IF IsMountedVisit(vs[i])
                    THEN LeafUserInput(vs[i].node)
                    ELSE Null]
        guess == mapRenderers(vals, FALSE)
        mounted == MountedVisits
        scores == [i \in 1..Len(mounted) |-> LeafScore(mounted[i].node)]
    IN  IF guess.thrown # Null
        THEN [op |-> "score", ret |-> Null, thrown |-> guess.thrown]
        ELSE IF scores = <<>>
        THEN [op |-> "score", ret |-> Null, thrown |-> TypeError]
        ELSE [op |-> "score",
              ret |-> keScoreFromPerseusScore(
                          ReduceFrom(scores[1], scores, 2), guess.tree),
              thrown |-> Null]

score ==
    /\ last' = scoreResult
    /\ Frame

\* getSerializedState() whose leaf mapper returns nothing for a leaf
\* without a ref (`return;`).
getSerializedStateUndefined ==
    LET vs == Visits
        vals == [i \in DOMAIN vs |->
                    IF IsMountedVisit(vs[i])
                    THEN LeafSerializedState(vs[i].node)
                    ELSE IF IsCellVisit(vs[i]) THEN Undefined ELSE Null]
    IN  /\ last' = Returned("getSerializedState", mapRenderers(vals, FALSE))
        /\ Frame

\* getSerializedState()
getSerializedState ==
    LET vs == Visits
        vals == [i \in DOMAIN vs |->
                    IF IsMountedVisit(vs[i])
                    THEN LeafSerializedState(vs[i].node)
                    ELSE Null]
    IN  /\ last' = Returned("getSerializedState", mapRenderers(vals, FALSE))
        /\ Frame

\* _findWidgets(callingData, filterCriterion)
RECURSIVE ConcatWidgets(_, _, _, _)
ConcatWidgets(vs, i, callingData, criterion) ==
    IF i > Len(vs)
    THEN <<>>
    ELSE LET c == vs[i].node.cell
         IN  (IF callingData # c /\ ref[c] # 0
              THEN LeafWidgets(vs[i].node, criterion)
              ELSE <<>>)
             \o ConcatWidgets(vs, i + 1, callingData, criterion)

\* The cells whose findInternalWidgets the leaf mapper of _findWidgets
\* invokes, in visiting order: `callingData !== data && data.ref`.
InvokedCells(callingData) ==
    LET Invokes(v) == callingData # v.node.cell /\ ref[v.node.cell] # 0
        vs == SelectSeq(CellVisits, Invokes)
    IN  [i \in DOMAIN vs |-> vs[i].node.cell]

\* _findWidgets that does not leave out the calling Renderer.
findWidgetsNoExclusion(callingData, criterion) ==
    LET r == mapRenderers(NoVals, FALSE)
    IN  /\ last' = [op |-> "findExternalWidgets",
                    ret |-> IF r.thrown = Null
                            THEN ConcatWidgets(CellVisits, 1, 0, criterion)
                            ELSE <<>>,
                    thrown |-> r.thrown,
                    calling |-> callingData,
                    invoked |-> IF r.thrown = Null
                                THEN InvokedCells(0) ELSE <<>>]
        /\ Frame

\* _findWidgets that assigns every leaf's widgets to results instead of
\* pushing them: only the widgets of the last leaf are returned.
findWidgetsOverwrites(callingData, criterion) ==
    LET r == mapRenderers(NoVals, FALSE)
        invoked == InvokedCells(callingData)
        Last(v) == invoked # <<>> /\ v.node.cell = invoked[Len(invoked)]
        lastVisit == SelectSeq(CellVisits, Last)
    IN  /\ last' = [op |-> "findExternalWidgets",
                    ret |-> IF r.thrown = Null /\ lastVisit # <<>>
                            THEN LeafWidgets(lastVisit[1].node, criterion)
                            ELSE <<>>,
                    thrown |-> r.thrown,
                    calling |-> callingData,
                    invoked |-> IF r.thrown = Null THEN invoked ELSE <<>>]
        /\ Frame

\* _findWidgets(callingData, filterCriterion): the traversal throws at the
\* first position the shape does not match, and nothing is returned then.
findWidgets(callingData, criterion) ==
    LET r == mapRenderers(NoVals, FALSE)
    IN  /\ last' = [op |-> "findExternalWidgets",
                    ret |-> IF r.thrown = Null
                            THEN ConcatWidgets(CellVisits, 1, callingData,
                                               criterion)
                            ELSE <<>>,
                    thrown |-> r.thrown,
                    calling |-> callingData,
                    invoked |-> IF r.thrown = Null
                                THEN InvokedCells(callingData) ELSE <<>>]
        /\ Frame

\* findExternalWidgets is the prop of a mounted Renderer.
FindExternalWidgets ==
    \E c \in DOMAIN ref, criterion \in Criteria :
        /\ ref[c] # 0
        /\ findWidgets(c, criterion)

\* _getRenderers() and render()
getRenderers ==
    LET vs == Visits
        vals == [i \in DOMAIN vs |->
                    IF IsCellVisit(vs[i])
                    THEN [type |-> "element", renderer |-> vs[i].node.renderer]
                    ELSE Null]
    IN  mapRenderers(vals, TRUE)

\* The arrays mapTree comes by when it walks a tree with a shape, in
\* pre-order, each with its shape: the arrays the array mapper is called on.
RECURSIVE ArrayNodes(_, _), ArrayNodesFrom(_, _, _)
ArrayNodes(tree, sh) ==
    IF sh.type \in LeafTypes
    THEN <<>>
    ELSE (IF sh.type = "array"
          THEN <<[node |-> tree, shape |-> sh]>>
          ELSE <<>>) \o ArrayNodesFrom(tree.c, sh, 1)

ArrayNodesFrom(c, sh, i) ==
    IF i > Len(c)
    THEN <<>>
    ELSE ArrayNodes(c[i], ChildShape(sh, i)) \o ArrayNodesFrom(c, sh, i + 1)

\* The mapped-children array handed to _annotateRendererArray, as it is
\* after the call: `renderers = [...renderers]` rebinds the parameter to a
\* copy before firstN is attached, so the array of the caller is as before.
mappedChildrenAfter(renderers, rendererDatas, sh) ==
    [type |-> "array", c |-> renderers]

\* render() without the renderError branch.
renderNoErrorBranch ==
    LET renderers == getRenderers
    IN  /\ last' = [op |-> "render", ret |-> renderers.tree,
                    thrown |-> renderers.thrown,
                    children |-> IF renderers.thrown = Null THEN 1 ELSE 0,
                    mapped |-> <<>>]
        /\ Frame

\* render(): children counts the calls of this.props.children; mapped holds
\* the mapped-children arrays as they are after the annotation.
render ==
    LET renderers == getRenderers
        exposed == renderError = Null /\ renderers.thrown = Null
                       /\ rendererDataTree # Null
        cached == IF exposed
                  THEN ArrayNodes(rendererDataTree, shape) ELSE <<>>
        result == IF exposed
                  THEN ArrayNodes(renderers.tree, shape) ELSE <<>>
        mapped == [k \in DOMAIN cached |->
                      mappedChildrenAfter(result[k].node.c, cached[k].node.c,
                                          cached[k].shape)]
    IN  /\ last' = IF renderError # Null
                   THEN [op |-> "render",
                         ret |-> [type |-> "errorDiv", error |-> renderError],
                         thrown |-> Null, children |-> 0, mapped |-> <<>>]
                   ELSE [op |-> "render", ret |-> renderers.tree,
                         thrown |-> renderers.thrown,
                         children |-> IF renderers.thrown = Null
                                      THEN 1 ELSE 0,
                         mapped |-> mapped]
        /\ Frame

\* --------------------------------------------- restoreSerializedState
\* lens(serializedState).get(path): undefined where the structure is
\* missing along the path.
RECURSIVE LensGet(_, _)
LensGet(structure, path) ==
    IF path = <<>>
    THEN structure
    ELSE IF /\ structure.type \in {"array", "object"}
            /\ Head(path) <= Len(structure.c)
         THEN LensGet(structure.c[Head(path)], Tail(path))
         ELSE Undefined

\* A test of the looked-up state that only skips a missing state
\* (`if (state === undefined) return`).
TruthyWhenPresent(state) == state.type = "state"

\* JavaScript truthiness of a looked-up state: `if (!state) return`.
Truthy(state) ==
    /\ state.type \notin {"null", "undefined"}
    /\ state.type = "state" => state.v # 0

\* The state trees a caller may pass for the item of the header example:
\* every content leaf (and a hint leaf) covered, one content leaf missing,
\* all of them missing, and one covered by a falsy value.
StateTrees ==
    { Obj(<<Arr(<<StateVal(1), StateVal(2)>>), Arr(<<StateVal(1)>>)>>),
      Obj(<<Arr(<<Undefined, StateVal(2)>>)>>),
      Obj(<<Arr(<<StateVal(1)>>)>>),
      Obj(<<Arr(<<StateVal(0), StateVal(2)>>)>>),
      Null }

\* What the caller and the leaves observe of one call, in order.
Event(e, cell, v) == [e |-> e, cell |-> cell, v |-> v]

\* The cells a call dispatched a restoration to.
DispatchedCells(call) ==
    {call.log[k].cell : k \in {j \in DOMAIN call.log : call.log[j].e = "dispatch"}}

\* The tree was rebuilt since the call dispatched its leaves: none of them
\* is a cell of the cached tree (every build allocates new cells).
Superseded(call) ==
    /\ DispatchedCells(call) # {}
    /\ DispatchedCells(call) \cap SeqRange(CellsOf(rendererDataTree)) = {}

\* countCallback that ignores the completions of a superseded call.
countCallbackCurrentOnly(call) ==
    IF Superseded(call)
    THEN call
    ELSE LET n == call.numCallbacks - 1
         IN  [call EXCEPT
                 !.numCallbacks = n,
                 !.log = IF call.callback /\ n = 0
                         THEN Append(@, Event("callback", 0, 0))
                         ELSE @]

\* countCallback of one call: the closure's counter is decremented and the
\* overall callback runs when it is zero.
countCallback(call) ==
    LET n == call.numCallbacks - 1
    IN  [call EXCEPT
            !.numCallbacks = n,
            !.log = IF call.callback /\ n = 0
                    THEN Append(@, Event("callback", 0, 0))
                    ELSE @]

\* A leaf invokes the completion callback it was handed.
Completes(call, c) ==
    countCallback([call EXCEPT !.log = Append(@, Event("complete", c, 0)),
                               !.pending = @ \ {c}])

\* The leaf mapper of restoreSerializedState over the visits from i on;
\* the leaves of sync complete inside their own restoreSerializedState.
RECURSIVE Dispatch(_, _, _, _, _)
Dispatch(call, vs, i, serializedState, sync) ==
    IF i > Len(vs)
    THEN call
    ELSE LET c == vs[i].node.cell
             state == LensGet(serializedState, vs[i].path)
             counted == [call EXCEPT
                            !.numCallbacks = @ + 1,
                            !.log = Append(@, Event("dispatch", c, state.v)),
                            !.pending = @ \cup {c}]
         IN  IF ref[c] = 0 \/ ~Truthy(state)
             THEN Dispatch(call, vs, i + 1, serializedState, sync)
             ELSE Dispatch(IF c \in sync THEN Completes(counted, c)
                                         ELSE counted,
                           vs, i + 1, serializedState, sync)

NewCall(callback) ==
    [numCallbacks |-> 0, callback |-> callback, log |-> <<>>,
     pending |-> {}, thrown |-> Null]

\* restoreSerializedState(serializedState, callback)
restoreSerializedState(serializedState, callback, sync) ==
    LET r == mapRenderers(NoVals, FALSE)
        call == Dispatch(NewCall(callback), CellVisits, 1, serializedState,
                         sync)
    IN  /\ calls' = Append(calls, [call EXCEPT !.thrown = r.thrown])
        /\ last' = [op |-> "restoreSerializedState", ret |-> Undefined,
                    thrown |-> r.thrown, serializedState |-> serializedState]
        /\ UNCHANGED <<item, shape, rendererDataTree, renderError, ref,
                       nextCell>>

\* The leaves a call with this state tree hands a state to: the mounted
\* leaves whose path holds a truthy state.
Restorable(serializedState) ==
    LET vs == CellVisits
    IN  {vs[k].node.cell :
            k \in {j \in DOMAIN vs :
                      /\ ref[vs[j].node.cell] # 0
                      /\ Truthy(LensGet(serializedState, vs[j].path))}}

\* The callback is a required parameter (callback: () => any), so every
\* call is given one.
Callbacks == {TRUE}

\* A call, with any subset of the leaves it restores completing
\* synchronously.
RestoreSerializedState ==
    /\ Len(calls) < MaxCalls
    /\ \E serializedState \in StateTrees, callback \in Callbacks :
           \E sync \in SUBSET Restorable(serializedState) :
               restoreSerializedState(serializedState, callback, sync)

\* A call made while leaf completions of earlier calls may be outstanding.
RestoreInterleaved ==
    /\ Len(calls) < MaxInterleaved
    /\ \E serializedState \in StateTrees, callback \in Callbacks :
           \E sync \in SUBSET Restorable(serializedState) :
               restoreSerializedState(serializedState, callback, sync)

\* countCallback over a counter kept on the component instead of in the
\* closure of the call: a completion decrements the counter of every call.
LeafCompleteSharedCounter(i, c) ==
    /\ c \in calls[i].pending
    /\ calls' = [j \in DOMAIN calls |->
                    IF j = i
                    THEN Completes(calls[j], c)
                    ELSE [calls[j] EXCEPT !.numCallbacks = @ - 1]]
    /\ last' = [op |-> "countCallback", thrown |-> Null, call |-> i,
                invoked |-> Len(calls'[i].log) - Len(calls[i].log) - 1]
    /\ UNCHANGED <<item, shape, rendererDataTree, renderError, ref, nextCell>>

\* A leaf that was handed a completion callback invokes it later.
LeafComplete(i, c) ==
    /\ c \in calls[i].pending
    /\ calls' = [calls EXCEPT ![i] = Completes(@, c)]
    /\ last' = [op |-> "countCallback", thrown |-> Null, call |-> i,
                invoked |-> Len(calls'[i].log) - Len(calls[i].log) - 1]
    /\ UNCHANGED <<item, shape, rendererDataTree, renderError, ref, nextCell>>

SetRef == \E c \in DOMAIN ref, e \in Instances : Mount(c, e)

ClearRef == \E c \in DOMAIN ref : Unmount(c)

CountCallback == \E i \in DOMAIN calls, c \in DOMAIN ref : LeafComplete(i, c)

\* The whole engine.
Next ==
    \/ ReceiveProps
    \/ SetRef
    \/ ClearRef
    \/ getScores
    \/ score
    \/ getSerializedState
    \/ FindExternalWidgets
    \/ render
    \/ RestoreSerializedState
    \/ CountCallback

Spec == Init /\ [][Next]_vars

\* The engine without restorations: props updates, mounting and the
\* synchronous queries, none of which reads or writes a restoration.
NextEngine ==
    \/ ReceiveProps
    \/ SetRef
    \/ ClearRef
    \/ getScores
    \/ score
    \/ getSerializedState
    \/ FindExternalWidgets
    \/ render

SpecEngine == Init /\ [][NextEngine]_vars

\* The restoration protocol: props updates, mounting, restoration calls and
\* leaf completions; the queries change nothing a restoration reads.
NextRestore ==
    \/ ReceiveProps
    \/ SetRef
    \/ ClearRef
    \/ RestoreSerializedState
    \/ CountCallback

SpecRestore == Init /\ [][NextRestore]_vars

\* Interleaved restorations of one cached tree: mounting, calls and leaf
\* completions in any order.
NextInterleave ==
    \/ SetRef
    \/ ClearRef
    \/ RestoreInterleaved
    \/ CountCallback

SpecInterleave == Init /\ [][NextInterleave]_vars

\* ------------------------------------------------- what a call's log shows
Count(log, e) == Cardinality({k \in DOMAIN log : log[k].e = e})

\* Every leaf the call dispatched has invoked its completion callback.
AllCompleted(call) == call.pending = {}

\* C1: a restoreSerializedState call that was given a callback, did not
\* throw and dispatched at least one leaf has invoked the overall callback
\* exactly once when all its leaves have completed, and never more than
\* once before, whatever the order of the completions.
C1_CallbackExactlyOnce ==
    \A i \in DOMAIN calls :
        LET call == calls[i]
        IN  (call.callback /\ call.thrown = Null
                /\ DispatchedCells(call) # {})
            => /\ Count(call.log, "callback") <= 1
               /\ AllCompleted(call) => Count(call.log, "callback") = 1

\* C2: the overall callback of a call is never invoked before a dispatch or
\* a leaf completion of that call: nothing but the callback follows the
\* callback in the call's log.
C2_NoPrematureCallback ==
    \A i \in DOMAIN calls :
        \A k \in DOMAIN calls[i].log :
            calls[i].log[k].e = "callback"
            => \A j \in (k + 1)..Len(calls[i].log) :
                   calls[i].log[j].e = "callback"

\* The engine is Ready and the props shape walks the cached tree.
Ready == rendererDataTree # Null /\ renderError = Null /\ ~HasError(Visits)

\* The engine is Errored.
Errored == rendererDataTree = Null /\ renderError # Null

IdentityScore(ret) ==
    /\ ret.type = "keScore"
    /\ ret.earned = 0
    /\ ret.total = 0

\* C3: score() on a Ready engine none of whose cells has a back-reference
\* returns the identity score (earned 0, total 0) and does not throw.
C3_ScoreOfNoMountedLeafIsIdentity ==
    (last.op = "score" /\ Ready /\ MountedVisits = <<>>)
    => (last.thrown = Null /\ IdentityScore(last.ret))

\* C4: in the Errored state getScores, score, getSerializedState,
\* restoreSerializedState and findExternalWidgets do not throw and return
\* the empty result: null trees, the identity score, no widgets, no
\* dispatched restoration.
C4_ErroredOperationsReturnEmpty ==
    Errored =>
        /\ last.op \in {"getScores", "score", "getSerializedState",
                        "restoreSerializedState", "findExternalWidgets"}
           => last.thrown = Null
        /\ last.op \in {"getScores", "getSerializedState"}
           => last.ret = Null
        /\ last.op = "score" => IdentityScore(last.ret)
        /\ last.op = "findExternalWidgets" => last.ret = <<>>
        /\ last.op = "restoreSerializedState"
           => calls[Len(calls)].log = <<>>

\* C5 as claimed: a leaf completion that arrives after the item changed and
\* the tree was rebuilt does not invoke the overall callback of the
\* superseded call.
C5_StaleCompletionIsNoOp ==
    (/\ last.op = "countCallback"
     /\ Superseded(calls[last.call])
     /\ rendererDataTree # Null)
    => last.invoked = 0

\* C5 as amended: a leaf completion that arrives after the tree was rebuilt
\* is counted like any other: the counter of its call still equals the
\* number of leaves that have not completed, and the completion invokes
\* the overall callback exactly when it is the last one of a call that was
\* given a callback.
C5_StaleCompletionStillCounts ==
    (last.op = "countCallback" /\ Superseded(calls[last.call]))
    => LET call == calls[last.call]
       IN  /\ call.numCallbacks = Cardinality(call.pending)
           /\ last.invoked = IF call.callback /\ call.pending = {}
                             THEN 1 ELSE 0

\* C5 witness: after the tree was rebuilt into a new tree, the last of two
\* completions of a superseded call has just invoked its overall callback.
C5_Witness ==
    /\ last.op = "countCallback"
    /\ Superseded(calls[last.call])
    /\ rendererDataTree # Null
    /\ Cardinality(DispatchedCells(calls[last.call])) = 2
    /\ last.invoked = 1

\* The cells of the cached tree whose path is missing from a state tree.
PathsOfMissing(serializedState) ==
    {CellVisits[k].node.cell :
        k \in {j \in DOMAIN CellVisits :
                  LensGet(serializedState, CellVisits[j].path) = Undefined}}

\* C6: a leaf whose path is missing from the state tree is not dispatched,
\* and a call that was given a callback has invoked it once every leaf it
\* dispatched has completed, also when every leaf is missing.
C6_MissingLeafNeverBlocksCallback ==
    /\ (last.op = "restoreSerializedState" /\ last.thrown = Null)
       => PathsOfMissing(last.serializedState)
              \cap DispatchedCells(calls[Len(calls)]) = {}
    /\ \A i \in DOMAIN calls :
           (calls[i].callback /\ calls[i].thrown = Null
               /\ AllCompleted(calls[i]))
           => Count(calls[i].log, "callback") >= 1

\* C7 as claimed: exactly one of the cached tree and the build error is
\* non-null.
C7_ExactlyOneNonNull ==
    (rendererDataTree = Null) # (renderError = Null)

\* C7 as amended: the cached tree and the build error are never both
\* non-null, and both are null only when the item is a single tags leaf,
\* which a successful build maps to null.
C7_AtMostOneNonNull ==
    /\ renderError # Null => rendererDataTree = Null
    /\ (renderError = Null /\ rendererDataTree = Null)
       => itemToTree(item).type = "tags"

\* C7 witness: a props update has rebuilt the state of a mounted tree into
\* the state of a tags item, with neither a tree nor an error.
C7_Witness ==
    /\ last.op = "componentWillReceiveProps"
    /\ last.rebuilt
    /\ rendererDataTree = Null
    /\ renderError = Null
    /\ \E c \in DOMAIN ref : ref[c] # 0

Queries ==
    {"render", "getScores", "score", "getSerializedState",
     "restoreSerializedState", "findExternalWidgets"}

\* The renderer elements of a tree render() hands to the consumer, in
\* pre-order.
IsElement(leaf) == leaf.type = "element"

ElementsOf(tree) ==
    LET elements == SelectSeq(LeavesOf(tree), IsElement)
    IN  [i \in DOMAIN elements |-> elements[i].renderer]

C9_DeepEqualItemGetsNewCells ==
    [][(/\ last'.op = "componentWillReceiveProps"
        /\ item' # item
        /\ itemToTree(item') = itemToTree(item))
       => LET new == SeqRange(CellsOf(rendererDataTree'))
              old == SeqRange(CellsOf(rendererDataTree))
          IN  /\ new \cap old = {}
              /\ new \cap DOMAIN ref = {}
              /\ \A c \in new : ref'[c] = 0
              /\ Cardinality(new) = Len(CellsOf(rendererDataTree'))
              /\ (renderError' = Null /\ renderError = Null /\ shape' = shape)
                 => Cardinality(new) = Cardinality(old)
      ]_vars

\* C9 witness: the tree was rebuilt from a deeply equal item while a cell
\* of the previous tree was mounted, and the new tree has cells.
C9_Witness ==
    /\ last.op = "componentWillReceiveProps"
    /\ last.previous # item
    /\ itemToTree(last.previous) = itemToTree(item)
    /\ CellsOf(rendererDataTree) # <<>>
    /\ \E c \in DOMAIN ref : ref[c] # 0

\* The error the build of the current props throws (null when it succeeds).
BuildError == makeRendererDataTree(item, shape, 1).thrown

\* C10: when the build of the props throws, at construction or in a props
\* update with a new item, the engine holds exactly that error and a null
\* tree, and nothing is thrown to the caller.
C10_BuildErrorIsCaught ==
    (/\ last.op \in {"constructor", "componentWillReceiveProps"}
     /\ last.op = "componentWillReceiveProps" => last.rebuilt)
    => /\ last.thrown = Null
       /\ BuildError # Null
          => (renderError = BuildError /\ rendererDataTree = Null)
       /\ BuildError = Null => renderError = Null

\* C10 witness: a props update has replaced a mounted tree by the error of
\* an item that holds an array where the shape expects a content leaf.
C10_Witness ==
    /\ last.op = "componentWillReceiveProps"
    /\ last.rebuilt
    /\ renderError = ShapeMismatch(<<1, 2>>)
    /\ rendererDataTree = Null
    /\ \E c \in DOMAIN ref : ref[c] # 0

\* ------------------------------------------------------ widget discovery
\* The cells of the cached tree, as a set, and the cell data of one of them.
TreeCells == SeqRange(CellsOf(rendererDataTree))

DataOf(c) ==
    LET leaves == LeavesOf(rendererDataTree)
    IN  leaves[CHOOSE k \in DOMAIN leaves :
                   IsCell(leaves[k]) /\ leaves[k].cell = c]

\* The place of a cell in the pre-order of the cached tree.
PositionOf(c) ==
    CHOOSE k \in DOMAIN CellsOf(rendererDataTree) :
        CellsOf(rendererDataTree)[k] = c

\* The widgets of a result that one cell contributed, in order.
WidgetsFrom(widgets, c) ==
    LET From(w) == w.cell = c
    IN  SelectSeq(widgets, From)

\* C11: findExternalWidgets called by a cell of a cached tree with at least
\* two leaves never invokes the findInternalWidgets of the calling cell's
\* own leaf and returns no widget that the calling cell contributed,
\* whatever the back-references of the other leaves.
C11_CallerIsExcluded ==
    (/\ last.op = "findExternalWidgets"
     /\ last.calling \in TreeCells
     /\ Cardinality(TreeCells) >= 2)
    => /\ \A k \in DOMAIN last.invoked : last.invoked[k] # last.calling
       /\ \A k \in DOMAIN last.ret : last.ret[k].cell # last.calling

\* C11 witness: a mounted cell that has widgets of its own has asked for
\* the external widgets and was returned those of the other mounted leaf.
C11_Witness ==
    /\ last.op = "findExternalWidgets"
    /\ last.calling \in TreeCells
    /\ ref[last.calling] # 0
    /\ \E criterion \in Criteria :
           LeafWidgets(DataOf(last.calling), criterion) # <<>>
    /\ last.ret # <<>>

\* C12: findExternalWidgets(A, criterion) that does not throw returns the
\* widgets of the cells of the cached tree that are not A and have a
\* non-null back-reference, and only those: every such cell contributes
\* exactly its own findInternalWidgets(criterion), and the contributions
\* are in the pre-order of the tree.
C12_ConcatenationOfMountedOthers ==
    (last.op = "findExternalWidgets" /\ last.thrown = Null)
    => LET others == {c \in TreeCells : c # last.calling /\ ref[c] # 0}
       IN  /\ \A k \in DOMAIN last.ret : last.ret[k].cell \in others
           /\ \A c \in others :
                  \E criterion \in Criteria :
                      WidgetsFrom(last.ret, c)
                          = LeafWidgets(DataOf(c), criterion)
           /\ \A j, k \in DOMAIN last.ret :
                  j < k => PositionOf(last.ret[j].cell)
                               <= PositionOf(last.ret[k].cell)
           /\ SeqRange(last.invoked) = others

\* C12 witness: two mounted leaves have contributed their widgets, in
\* pre-order, while the other cells of the tree have a null back-reference.
C12_Witness ==
    /\ last.op = "findExternalWidgets"
    /\ last.thrown = Null
    /\ Cardinality({last.ret[k].cell : k \in DOMAIN last.ret}) = 2
    /\ \E c \in TreeCells : ref[c] = 0

\* ------------------------------------------------- dispatched restorations
\* The restorations a call dispatched, in the order it dispatched them.
DispatchesOf(call) ==
    LET IsDispatch(ev) == ev.e = "dispatch"
    IN  SelectSeq(call.log, IsDispatch)

\* The state tree holds a state value at the path (whatever the value).
HoldsValue(serializedState, path) ==
    LensGet(serializedState, path).type = "state"

\* The state tree holds a state value at the path that is not one of the
\* falsy values of JavaScript.
HoldsTruthyValue(serializedState, path) ==
    /\ HoldsValue(serializedState, path)
    /\ LensGet(serializedState, path).v # 0

\* C13 as claimed: a call that does not throw dispatches a restoration to
\* every mounted leaf whose path holds a state value in the state tree,
\* whatever the value.
C13_EveryCoveredLeafRestored ==
    (last.op = "restoreSerializedState" /\ last.thrown = Null)
    => \A k \in DOMAIN MountedVisits :
           HoldsValue(last.serializedState, MountedVisits[k].path)
           => MountedVisits[k].node.cell
                  \in DispatchedCells(calls[Len(calls)])

\* C13 as amended: a call that does not throw dispatches a restoration to
\* exactly the mounted leaves whose path holds a truthy state value, once
\* each and in pre-order, and hands each the value at its own path; a
\* leaf whose path holds a falsy value is skipped like a missing one.
C13_TruthyCoveredLeavesRestored ==
    (last.op = "restoreSerializedState" /\ last.thrown = Null)
    => LET Covered(v) == HoldsTruthyValue(last.serializedState, v.path)
           covered == SelectSeq(MountedVisits, Covered)
       IN  DispatchesOf(calls[Len(calls)])
               = [k \in DOMAIN covered |->
                     Event("dispatch", covered[k].node.cell,
                           LensGet(last.serializedState, covered[k].path).v)]

\* C13 witness: of two mounted leaves whose paths both hold a value, the
\* first a falsy one, only the second was dispatched a restoration.
C13_Witness ==
    /\ last.op = "restoreSerializedState"
    /\ last.thrown = Null
    /\ Len(MountedVisits) = 2
    /\ \A k \in DOMAIN MountedVisits :
           HoldsValue(last.serializedState, MountedVisits[k].path)
    /\ Len(DispatchesOf(calls[Len(calls)])) = 1

\* ------------------------------------------------------------ aggregation
\* The topology of a tree: its arrays and objects with their lengths, and
\* where its leaves are.
RECURSIVE TopologyOf(_)
TopologyOf(tree) ==
    IF tree.type \in {"array", "object"}
    THEN [type |-> tree.type,
          c |-> [i \in DOMAIN tree.c |-> TopologyOf(tree.c[i])]]
    ELSE [type |-> "leaf"]

\* The sums of the earned and of the total points of a sequence of scores.
RECURSIVE SumEarned(_), SumTotal(_)
SumEarned(scores) ==
    IF scores = <<>> THEN 0 ELSE Head(scores).earned + SumEarned(Tail(scores))

SumTotal(scores) ==
    IF scores = <<>> THEN 0 ELSE Head(scores).total + SumTotal(Tail(scores))

\* The leaf of the cached tree at a pre-order position has a back-reference.
MountedAt(k) ==
    LET leaf == LeavesOf(rendererDataTree)[k]
    IN  IsCell(leaf) /\ ref[leaf.cell] # 0

\* C14: score() on a Ready engine with a mounted leaf does not throw and
\* returns the combination of the scores of all mounted leaves (earned and
\* total summed, so that (1,1) and (0,1) give (1,2)), with a guess tree of
\* the topology of the cached tree that holds the user input of every
\* mounted content leaf at its position and null at every other leaf.
C14_ScoreFoldsMountedLeaves ==
    (last.op = "score" /\ Ready /\ MountedVisits # <<>>)
    => LET scores == [k \in DOMAIN MountedVisits |->
                         LeafScore(MountedVisits[k].node)]
           leaves == LeavesOf(rendererDataTree)
       IN  /\ last.thrown = Null
           /\ last.ret.type = "keScore"
           /\ last.ret.earned = SumEarned(scores)
           /\ last.ret.total = SumTotal(scores)
           /\ TopologyOf(last.ret.guess) = TopologyOf(rendererDataTree)
           /\ LeavesOf(last.ret.guess)
                  = [k \in DOMAIN leaves |->
                        IF MountedAt(k)
                        THEN LeafUserInput(leaves[k])
                        ELSE Null]

\* C14 witness: two mounted leaves, one answered correctly and one not,
\* were scored (1,2).
C14_Witness ==
    /\ last.op = "score"
    /\ Ready
    /\ Len(MountedVisits) = 2
    /\ LeafScore(MountedVisits[1].node).earned = 1
    /\ LeafScore(MountedVisits[2].node).earned = 0
    /\ last.thrown = Null
    /\ last.ret.earned = 1
    /\ last.ret.total = 2

\* C15: getScores() and getSerializedState() on a Ready engine return a
\* tree of the topology of the cached tree that holds the leaf's own score
\* (getScores) or serialized state (getSerializedState) at every leaf with
\* a non-null back-reference and null at every other leaf.
C15_PerLeafTreesKeepTopology ==
    (last.op \in {"getScores", "getSerializedState"} /\ Ready)
    => LET leaves == LeavesOf(rendererDataTree)
       IN  /\ last.thrown = Null
           /\ TopologyOf(last.ret) = TopologyOf(rendererDataTree)
           /\ last.op = "getScores"
              => LeavesOf(last.ret)
                     = [k \in DOMAIN leaves |->
                           IF MountedAt(k)
                           THEN keScoreFromPerseusScore(
                                    LeafScore(leaves[k]),
                                    LeafUserInput(leaves[k]))
                           ELSE Null]
           /\ last.op = "getSerializedState"
              => LeavesOf(last.ret)
                     = [k \in DOMAIN leaves |->
                           IF MountedAt(k)
                           THEN LeafSerializedState(leaves[k])
                           ELSE Null]

\* C15 witness: the serialized state of a tree with one mounted and one
\* unmounted content leaf was taken.
C15_Witness ==
    /\ last.op = "getSerializedState"
    /\ Ready
    /\ Len(MountedVisits) = 1
    /\ Len(ContentCellsOf(rendererDataTree)) = 2
    /\ last.ret # Null

\* ---------------------------------------------------------------- render
\* C16: render() in the Errored state returns the error indicator that
\* carries the build error and does not call the composition function;
\* render() in the Ready state calls the composition function exactly once,
\* with a tree of the topology of the cached tree that holds the renderer
\* element of every cached cell.
C16_RenderErroredAndReady ==
    last.op = "render"
    => /\ Errored
          => /\ last.thrown = Null
             /\ last.ret = [type |-> "errorDiv", error |-> renderError]
             /\ last.children = 0
       /\ Ready
          => /\ last.thrown = Null
             /\ last.children = 1
             /\ TopologyOf(last.ret) = TopologyOf(rendererDataTree)
             /\ ElementsOf(last.ret)
                    = [k \in DOMAIN CellVisits |->
                          CellVisits[k].node.renderer]

\* C16 witness: render() of an engine whose mounted tree was replaced by a
\* build error has returned the error indicator.
C16_Witness ==
    /\ last.op = "render"
    /\ Errored
    /\ last.ret.type = "errorDiv"
    /\ \E c \in DOMAIN ref : ref[c] # 0

\* What render() exposed of the arrays of the cached tree: every array has
\* firstN exactly when its element shape is hint, firstN is made of the
\* hints of the array's cells in order, the array holds the renderer
\* elements of the array's cells and nothing else, and the mapped-children
\* array it was copied from has no firstN.
ArraysAnnotated ==
    LET cached == ArrayNodes(rendererDataTree, shape)
        result == ArrayNodes(last.ret, shape)
    IN  /\ Len(result) = Len(cached)
        /\ Len(last.mapped) = Len(cached)
        /\ \A k \in DOMAIN cached :
               LET a == result[k].node
                   d == cached[k].node
                   isHint == cached[k].shape.elementShape.type = "hint"
               IN  /\ ("firstN" \in DOMAIN a) <=> isHint
                   /\ isHint => a.firstN = [i \in DOMAIN d.c |-> d.c[i].hint]
                   /\ Len(a.c) = Len(d.c)
                   /\ "firstN" \notin DOMAIN last.mapped[k]
                   /\ last.mapped[k].c = a.c
                   /\ "firstN" \notin DOMAIN d
        /\ Len(LeavesOf(last.ret)) = Len(LeavesOf(rendererDataTree))

\* C17: when render() exposes the renderer tree, an array has firstN if and
\* only if its element shape is hint, firstN is built from the hints of the
\* array's cells in order, and attaching it leaves the cached tree and the
\* mapped-children array as they were and adds no leaf.
C17_FirstNOnHintArraysOnly ==
    [][(last'.op = "render" /\ Ready' /\ last'.thrown = Null)
       => /\ rendererDataTree' = rendererDataTree
          /\ ArraysAnnotated'
      ]_vars

\* C17 witness: render() has exposed an array of two hints with firstN over
\* both hints, next to an array of content renderers.
C17_Witness ==
    /\ last.op = "render"
    /\ Ready
    /\ \E k \in DOMAIN last.ret.c :
           /\ "firstN" \in DOMAIN last.ret.c[k]
           /\ Len(last.ret.c[k].firstN) = 2
    /\ \E k \in DOMAIN last.ret.c :
           /\ last.ret.c[k].type = "array"
           /\ "firstN" \notin DOMAIN last.ret.c[k]

\* -------------------------------------------------------- back-references
\* C18: the back-reference of a cell is null when the cell is constructed
\* and afterwards changes only in a step of that cell's own ref callback;
\* no cell is ever dropped, and the cached tree changes only when a props
\* update with a new item replaces it by a tree none of whose cells existed
\* before, so no operation changes the topology of a cached tree.
C18_BackReferenceWrittenByOwnCallback ==
    /\ \A c \in DOMAIN ref : ref[c] = 0
    /\ [][
          /\ DOMAIN ref \subseteq DOMAIN ref'
          /\ \A c \in DOMAIN ref' \ DOMAIN ref : ref'[c] = 0
          /\ \A c \in DOMAIN ref :
                 ref'[c] # ref[c] => (last'.op = "ref" /\ last'.cell = c)
          /\ rendererDataTree' # rendererDataTree
             => /\ last'.op = "componentWillReceiveProps"
                /\ last'.rebuilt
                /\ SeqRange(CellsOf(rendererDataTree')) \cap DOMAIN ref = {}
       ]_vars

\* C18 witness: the ref callback of the second content cell has set its
\* back-reference while the first content cell stayed unmounted.
C18_Witness ==
    /\ last.op = "ref"
    /\ last.cell \in TreeCells
    /\ ref[last.cell] # 0
    /\ \E c \in SeqRange(ContentCellsOf(rendererDataTree)) :
           c < last.cell /\ ref[c] = 0

\* --------------------------------------------------------- traversal shape
\* C19: a traversal of the cached tree (render, getScores, score,
\* getSerializedState, restoreSerializedState, findExternalWidgets) walks it
\* with the shape it was built with: the shape the traversal uses walks the
\* cached tree, and the traversal throws no shape mismatch, also after a
\* props update that changed the shape and kept the item reference.
C19_TraversalsUseBuildShape ==
    (last.op \in Queries /\ rendererDataTree # Null)
    => /\ ~HasError(Walk(rendererDataTree, shape, <<>>))
       /\ last.thrown.type # "ShapeMismatch"

\* -------------------------------------------------------------- hint cells
HintCells ==
    LET hints == SelectSeq(LeavesOf(rendererDataTree),
                           LAMBDA leaf : leaf.type = "hint")
    IN  {hints[k].cell : k \in DOMAIN hints}

\* The leaves of a returned tree that stand at the positions of the hint
\* cells of the cached tree.
AtHintPositions(tree) ==
    LET leaves == LeavesOf(rendererDataTree)
    IN  {LeavesOf(tree)[k] :
            k \in {j \in DOMAIN leaves : leaves[j].type = "hint"}}

\* What the operations show of the hint cells: every hint cell of the
\* cached tree has a null back-reference, findExternalWidgets neither
\* invokes a hint leaf nor returns a widget of one, getScores, the guess
\* tree of score and getSerializedState hold null at every hint position,
\* and no restoration is dispatched to a hint cell.
HintCellsUntouched ==
    /\ \A c \in HintCells : ref[c] = 0
    /\ last.op = "findExternalWidgets"
       => /\ \A k \in DOMAIN last.ret : last.ret[k].cell \notin HintCells
          /\ SeqRange(last.invoked) \cap HintCells = {}
    /\ (last.op \in {"getScores", "getSerializedState"} /\ Ready)
       => AtHintPositions(last.ret) \subseteq {Null}
    /\ (last.op = "score" /\ last.thrown = Null)
       => AtHintPositions(last.ret.guess) \subseteq {Null}
    /\ last.op = "restoreSerializedState"
       => DispatchedCells(calls[Len(calls)]) \cap HintCells = {}

\* C20: the back-reference of every hint cell is null in every reachable
\* state (a back-reference only becomes non-null at a content cell of the
\* cached tree), so a hint leaf never contributes to findExternalWidgets,
\* is never scored and is never dispatched a restoration.
C20_HintCellsNeverMounted ==
    /\ []HintCellsUntouched
    /\ [][\A c \in DOMAIN ref :
              (ref[c] = 0 /\ ref'[c] # 0)
              => c \in SeqRange(ContentCellsOf(rendererDataTree)) \ HintCells
       ]_vars

\* C20 witness: a restoration with a state tree that also holds a state at
\* the path of a hint leaf was dispatched to both mounted content leaves
\* of a tree with two hint cells, and to them only.
C20_Witness ==
    /\ last.op = "restoreSerializedState"
    /\ Cardinality(HintCells) = 2
    /\ \E k \in DOMAIN CellVisits :
           /\ CellVisits[k].node.cell \in HintCells
           /\ HoldsValue(last.serializedState, CellVisits[k].path)
    /\ Cardinality(DispatchedCells(calls[Len(calls)])) = 2

\* ------------------------------------------------------- interleaved calls
\* Every call's counter is the number of its own dispatches that have not
\* completed.
OwnCounters ==
    \A j \in DOMAIN calls :
        calls[j].numCallbacks = Cardinality(calls[j].pending)

\* C21: restoreSerializedState calls whose leaf completions interleave do
\* not interfere: every call counts its own outstanding dispatches, a leaf
\* completion changes the counter of its own call only (by one), a new
\* call leaves the earlier calls as they are, and the overall callback of a
\* call is invoked only in a completion of a leaf that call dispatched.
C21_InterleavedCallsDoNotInterfere ==
    /\ []OwnCounters
    /\ [][
          /\ last'.op = "countCallback"
             => /\ DOMAIN calls' = DOMAIN calls
                /\ calls'[last'.call].numCallbacks
                       = calls[last'.call].numCallbacks - 1
                /\ \A j \in DOMAIN calls :
                       j # last'.call => calls'[j] = calls[j]
          /\ last'.op = "restoreSerializedState"
             => \A j \in DOMAIN calls : calls'[j] = calls[j]
          /\ \A j \in DOMAIN calls :
                 Count(calls'[j].log, "callback")
                     > Count(calls[j].log, "callback")
                 => /\ last'.op = "countCallback"
                    /\ last'.call = j
                    /\ calls[j].pending \ calls'[j].pending
                           \subseteq DispatchedCells(calls[j])
                    /\ calls[j].pending # calls'[j].pending
       ]_vars

\* C21 witness: two calls were each dispatched to the same two leaves, the
\* completions of the second call all arrived before the last completion
\* of the first, and each call has invoked its own callback once.
C21_Witness ==
    /\ Len(calls) = MaxInterleaved
    /\ last.op = "countCallback"
    /\ last.call = 1
    /\ last.invoked = 1
    /\ \A j \in DOMAIN calls :
           /\ Cardinality(DispatchedCells(calls[j])) = 2
           /\ calls[j].pending = {}
           /\ Count(calls[j].log, "callback") = 1
====
